---- MODULE Spec2Model ----
(***************************************************************************)
(* Smart-FIR-Generator: the FIR rules layer of fir_backend/home/views.py   *)
(* and models.py.  Every view is a request that runs in one of the request *)
(* slots of the web server.  A request first enters the view (role check,  *)
(* get_object_or_404, can_access_fir) and keeps the FIR row it loaded as a *)
(* local object; its writes happen in later steps, so two requests of the  *)
(* concurrent specification may interleave between the load and the save.  *)
(* Model.save() writes every column of the local object.                   *)
(***************************************************************************)
EXTENDS Integers, FiniteSets, Sequences, TLC

\* ---------------------------------------------------------------- bounds
\* Requests begun in one behaviour of a specification that runs a few views.
MaxRequests == 3
\* Requests begun in one behaviour of the specification that runs every view.
MaxAnyRequests == 2
\* Requests begun in one behaviour of the concurrent specification.
MaxConcurrentRequests == 2
\* Requests begun in one behaviour of the specification that starts from every
\* users table, owner and team.
MaxFanoutRequests == 1

\* ------------------------------------------------------------- universes
Users == {"u1", "u2", "u3"}
Stations == {"s1", "s2"}
FirIds == {"f1", "f2"}
Slots == {"r1", "r2"}
None == "None"

\* models.py User.ROLE_CHOICES; the column is a free CharField and
\* user_create_view stores whatever role string is posted ("other").
ROLE_CHOICES == {"admin", "police_officer"}
Roles == ROLE_CHOICES \cup {"other"}

\* models.py FIR.STATUS_CHOICES (the keys).
STATUS_CHOICES == {"draft", "submitted", "under_investigation", "closed", "rejected"}

\* models.py Evidence.EVIDENCE_TYPES (the keys).
EVIDENCE_TYPES == {"photo", "video", "document", "audio", "other"}

VARIABLES
    stations,       \* Station table: pk -> Station.name
    issued,         \* primary keys the User and Station tables have issued
    role,           \* User table: pk -> User.role
    station,        \* User table: pk -> User.station (None: no station)
    firs,           \* FIR table: pk -> row
    assigned_team,  \* FIR.assigned_team, the many-to-many table: pk -> set of users
    suggestions,    \* LegalSuggestion table: set of rows
    suggestion_seq, \* the last primary key the LegalSuggestion table issued
    evidence,       \* Evidence table
    witnesses,      \* Witness table
    hearings,       \* CourtHearing table
    notes,          \* InvestigationNote table
    notifications,  \* Notification table
    req,            \* the request running (or last run) in each slot
    nreq,           \* requests begun so far
    quota           \* requests the behaviour may begin

vars == <<stations, issued, role, station, firs, assigned_team, suggestions, suggestion_seq, evidence, witnesses,
          hearings, notes, notifications, req, nreq, quota>>

db == <<firs, assigned_team, suggestions, suggestion_seq, evidence, witnesses, hearings, notes,
        notifications>>

\* ------------------------------------------------------ utility functions
\* A variant of is_admin that also admits police officers.
is_admin_or_officer(u) == role[u] \in {"admin", "police_officer"}

is_admin(u) == role[u] = "admin"

is_police_officer(u) == role[u] = "police_officer"

\* A variant of can_access_fir that also admits officers of the FIR's station.
can_access_fir_same_station(u, f, row) ==
    IF is_admin(u) THEN TRUE
    ELSE IF is_police_officer(u)
         THEN row.police_officer = u \/ u \in assigned_team[f] \/ station[u] = row.station
         ELSE FALSE

\* can_access_fir(user, fir): fir is the loaded row, the team is read from
\* the many-to-many table.
can_access_fir(u, f, row) ==
    IF is_admin(u) THEN TRUE
    ELSE IF is_police_officer(u)
         THEN row.police_officer = u \/ u \in assigned_team[f]
         ELSE FALSE

workflow ==
    [draft |-> {"submitted"},
     submitted |-> {"under_investigation", "rejected"},
     under_investigation |-> {"closed", "rejected"},
     rejected |-> {"submitted"},
     closed |-> {}]

\* Variants of validate_status_change, each with one more edge in the table.
validate_status_change_draft_skips(old_status, new_status) ==
    \/ old_status = "draft" /\ new_status = "under_investigation"
    \/ old_status \in DOMAIN workflow /\ new_status \in workflow[old_status]

validate_status_change_closed_reopens(old_status, new_status) ==
    \/ old_status = "closed" /\ new_status = "under_investigation"
    \/ old_status \in DOMAIN workflow /\ new_status \in workflow[old_status]

validate_status_change_same_status(old_status, new_status) ==
    \/ old_status = new_status
    \/ old_status \in DOMAIN workflow /\ new_status \in workflow[old_status]

validate_status_change_submitted_closes(old_status, new_status) ==
    \/ old_status = "submitted" /\ new_status = "closed"
    \/ old_status \in DOMAIN workflow /\ new_status \in workflow[old_status]

\* workflow.get(old_status, []) : an unknown old status has no successor.
validate_status_change(old_status, new_status) ==
    IF old_status \in DOMAIN workflow
    THEN new_status \in workflow[old_status]
    ELSE FALSE


\* A variant of Recipients that does not leave the actor out of the team.
Recipients_whole_team(row, team, action, actor) ==
    (IF row.police_officer # actor THEN {row.police_officer} ELSE {})
    \cup team
    \cup (IF action \in {"rejected", "status_change", "overdue"}
          THEN {u \in DOMAIN role : role[u] = "admin"}
          ELSE {})

\* send_fir_notification: the recipient set.  fir.police_officer is the owner
\* of the caller's local row; the team and the admins are read from the tables.
Recipients(row, team, action, actor) ==
    (IF row.police_officer # actor THEN {row.police_officer} ELSE {})
    \cup {member \in team : member # actor}
    \cup (IF action \in {"rejected", "status_change", "overdue"}
          THEN {u \in DOMAIN role : role[u] = "admin"}
          ELSE {})

\* link=f"/firs/{fir.pk}/": a path, as the sequence of its segments.
fir_link(f) == <<"firs", f>>

\* A variant of send_fir_notification whose rows do not tell two calls apart.
send_fir_notification_once(f, row, team, action, actor, call) ==
    {[user |-> r, fir |-> f, action |-> action, actor |-> actor,
      link |-> fir_link(f), read |-> FALSE, call |-> 0]
        : r \in Recipients(row, team, action, actor)}

\* send_fir_notification: one Notification row per recipient.  fir, action and
\* actor are the parts of the message; call and user together stand for the
\* row's primary key: the rows of one call differ in user, those of two calls
\* in call.
send_fir_notification(f, row, team, action, actor, call) ==
    {[user |-> r, fir |-> f, action |-> action, actor |-> actor,
      link |-> fir_link(f), read |-> FALSE, call |-> call]
        : r \in Recipients(row, team, action, actor)}

\* urls.py: the view a path is routed to, for the paths of a FIR's detail pages.
resolve(path) ==
    IF Len(path) = 3 /\ path[1] = "admin" /\ path[2] = "firs" /\ path[3] \in FirIds
    THEN "admin_fir_detail"
    ELSE IF Len(path) = 3 /\ path[1] = "officer" /\ path[2] = "firs" /\ path[3] \in FirIds
    THEN "officer_fir_detail"
    ELSE "Resolver404"

\* generate_legal_suggestions_view: the mocked response (confidence in percent).
mock_suggestions ==
    <<[ipc_section |-> "IPC 379", confidence_score |-> 85],
      [ipc_section |-> "IPC 34", confidence_score |-> 72]>>

\* ------------------------------------------------------------- requests
NoRow == [status |-> None, police_officer |-> None, station |-> None, details |-> None]

\* request.POST / request.FILES, one record for all views; a view reads its own keys.
NoArg ==
    [status |-> None, suggestion_id |-> 0, details |-> None, officer_id |-> None,
     team_members |-> {}, file |-> None, evidence_type |-> None,
     service |-> None, complete |-> FALSE, action |-> None,
     notification_id |-> <<0, None>>,
     text |-> None, translator |-> None, classifier |-> None, recognizer |-> None,
     network |-> None,
     pk |-> None, role |-> None, station |-> None, name |-> None]

\* The JSON body of an answer of the Flask service (app.py), or the value a
\* function of the pipeline returns; a text is the sequence of its parts.
NoBody ==
    [original_text |-> None, translated_text |-> <<>>, ipc_section |-> None,
     confidence_score |-> 0, error |-> None, predicted_sections |-> <<>>]

IdleRequest ==
    [id |-> 0, kind |-> None, user |-> None, fir |-> None, arg |-> NoArg,
     pc |-> "idle", i |-> 0, snap |-> NoRow, created |-> {}, out |-> None,
     body |-> NoBody]

\* Views that start with "if not is_police_officer(request.user): raise PermissionDenied".
OfficerViews ==
    {"officer_fir_create", "officer_fir_detail", "officer_fir_update",
     "upload_evidence", "generate_legal_suggestions"}

\* Views that start with "if not is_admin(request.user): raise PermissionDenied".
AdminViews == {"admin_fir_detail"}

\* transcribe_audio_view up to its first write: everything after the temp file is
\* inside try/except Exception, which turns Http404 and PermissionDenied into a
\* 500 JSON answer.
TranscribeEntry(u, f, a) ==
    IF a.file = None THEN "400 Invalid request"
    ELSE IF a.service = "exception" THEN "500"
    ELSE IF a.service # "200" THEN "400 Transcription failed"
    ELSE IF f \notin DOMAIN firs THEN "500"
    ELSE IF ~can_access_fir(u, f, firs[f]) THEN "500"
    ELSE "loaded"

\* What entering view k answers before any write: a final response, or "loaded"
\* when the request goes on to its POST body.
EntryOutcome(k, u, f, a) ==
    IF k \in OfficerViews /\ ~is_police_officer(u) THEN "403"
    ELSE IF k \in AdminViews /\ ~is_admin(u) THEN "403"
    ELSE IF k = "officer_fir_create" THEN "loaded"
    ELSE IF k = "transcribe_audio" THEN TranscribeEntry(u, f, a)
    ELSE IF f \notin DOMAIN firs THEN "404"
    ELSE IF k # "admin_fir_detail" /\ ~can_access_fir(u, f, firs[f]) THEN "403"
    ELSE IF k = "upload_evidence" /\ a.file = None THEN "400 Invalid request"
    ELSE IF k = "manage_evidence" THEN "200 render"
    ELSE "loaded"

Busy(s) == req[s].pc \notin {"idle", "done"}

\* Slot s may take a new request: it is the first free slot, and the quota lasts.
Accept(s) ==
    /\ ~Busy(s)
    /\ s = "r1" \/ Busy("r1")
    /\ nreq < quota

\* A request enters view k in slot s: role check, get_object_or_404 and
\* can_access_fir; the loaded FIR row stays in the request as its local object.
Enter(s, k, u, f, a) ==
    /\ LET o == EntryOutcome(k, u, f, a)
       IN req' = [req EXCEPT ![s] =
                    [id |-> nreq + 1, kind |-> k, user |-> u, fir |-> f, arg |-> a,
                     pc |-> IF o = "loaded" THEN "loaded" ELSE "done",
                     i |-> 0, created |-> {},
                     snap |-> IF o = "loaded" /\ f \in DOMAIN firs THEN firs[f] ELSE NoRow,
                     out |-> IF o = "loaded" THEN None ELSE o,
                     body |-> NoBody]]
    /\ nreq' = nreq + 1
    /\ UNCHANGED <<stations, issued, role, station, db, quota>>

Running(s, k) == req[s].pc = "loaded" /\ req[s].kind = k

Finish(s, o) == req' = [req EXCEPT ![s].pc = "done", ![s].out = o]


\* ------------------------------------------------- officer_fir_detail_view
officer_fir_detail_view(s, u, f, st, sid) ==
    /\ Accept(s)
    /\ st = None \/ sid = 0
    /\ Enter(s, "officer_fir_detail", u, f,
             [NoArg EXCEPT !.status = st, !.suggestion_id = sid])

\* "Handle status update": the guard of the if.
StatusChangeApplies(row, new_status) ==
    new_status \in STATUS_CHOICES /\ validate_status_change(row.status, new_status)

\* "Handle legal suggestion override": LegalSuggestion.objects.get(pk=..., fir=fir),
\* then the posted sections are stored ("edited").
OverrideSuggestion(f, sid) ==
    {IF x.id = sid /\ x.fir = f /\ sid # 0
     THEN [x EXCEPT !.ipc_section = "edited"] ELSE x : x \in suggestions}

\* A variant of officer_fir_detail_post that sends the notifications whether or
\* not the status was saved.
officer_fir_detail_post_notifies_always(s) ==
    /\ Running(s, "officer_fir_detail")
    /\ LET r == req[s]
           f == r.fir
           applied == StatusChangeApplies(r.snap, r.arg.status)
           row == IF applied THEN [r.snap EXCEPT !.status = r.arg.status] ELSE r.snap
       IN /\ firs' = IF applied THEN [firs EXCEPT ![f] = row] ELSE firs
          /\ notifications' =
                notifications \cup
                send_fir_notification(f, row, assigned_team[f], "status_change", r.user, r.id)
          /\ suggestions' = OverrideSuggestion(f, r.arg.suggestion_id)
    /\ Finish(s, "302 officer_fir_detail")
    /\ UNCHANGED <<stations, issued, role, station, assigned_team, suggestion_seq, evidence,
                   witnesses, hearings, notes, nreq, quota>>

\* A variant of officer_fir_detail_post that saves only while the stored row
\* is still the row it loaded (a version check).
officer_fir_detail_post_versioned(s) ==
    /\ Running(s, "officer_fir_detail")
    /\ LET r == req[s]
           f == r.fir
           applied == StatusChangeApplies(r.snap, r.arg.status) /\ firs[f] = r.snap
           row == [r.snap EXCEPT !.status = r.arg.status]
       IN /\ firs' = IF applied THEN [firs EXCEPT ![f] = row] ELSE firs
          /\ notifications' =
                IF applied
                THEN notifications \cup
                     send_fir_notification(f, row, assigned_team[f], "status_change",
                                           r.user, r.id)
                ELSE notifications
          /\ suggestions' = OverrideSuggestion(f, r.arg.suggestion_id)
    /\ Finish(s, "302 officer_fir_detail")
    /\ UNCHANGED <<stations, issued, role, station, assigned_team, suggestion_seq, evidence,
                   witnesses, hearings, notes, nreq, quota>>

\* The POST body: status update (save + fan-out), suggestion override, redirect.
officer_fir_detail_post(s) ==
    /\ Running(s, "officer_fir_detail")
    /\ LET r == req[s]
           f == r.fir
           applied == StatusChangeApplies(r.snap, r.arg.status)
           row == [r.snap EXCEPT !.status = r.arg.status]
       IN /\ firs' = IF applied THEN [firs EXCEPT ![f] = row] ELSE firs
          /\ notifications' =
                IF applied
                THEN notifications \cup
                     send_fir_notification(f, row, assigned_team[f], "status_change",
                                           r.user, r.id)
                ELSE notifications
          /\ suggestions' = OverrideSuggestion(f, r.arg.suggestion_id)
    /\ Finish(s, "302 officer_fir_detail")
    /\ UNCHANGED <<stations, issued, role, station, assigned_team, suggestion_seq, evidence, witnesses,
                   hearings, notes, nreq, quota>>

\* ------------------------------------------------- officer_fir_update_view
officer_fir_update_view(s, u, f, d) ==
    /\ Accept(s)
    /\ Enter(s, "officer_fir_update", u, f, [NoArg EXCEPT !.details = d])

\* The posted complainant and incident fields (details) go into the local row,
\* fir.save() writes the whole row.
officer_fir_update_post(s) ==
    /\ Running(s, "officer_fir_update")
    /\ firs' = [firs EXCEPT ![req[s].fir] = [req[s].snap EXCEPT !.details = req[s].arg.details]]
    /\ Finish(s, "302 officer_fir_detail")
    /\ UNCHANGED <<stations, issued, role, station, assigned_team, suggestions, suggestion_seq, evidence, witnesses,
                   hearings, notes, notifications, nreq, quota>>

\* --------------------------------------------------- admin_fir_detail_view
admin_fir_detail_view(s, u, f, oid) ==
    /\ Accept(s)
    /\ Enter(s, "admin_fir_detail", u, f, [NoArg EXCEPT !.officer_id = oid])

\* A variant of OfficerExists that accepts a user of any role.
OfficerExists_any_role(oid) == oid \in DOMAIN role

\* User.objects.get(pk=officer_id, role='police_officer') finds a row.
OfficerExists(oid) == oid \in DOMAIN role /\ role[oid] = "police_officer"

\* "Handle FIR reassignment".
admin_fir_detail_post(s) ==
    /\ Running(s, "admin_fir_detail")
    /\ LET r == req[s]
           f == r.fir
           found == r.arg.officer_id # None /\ OfficerExists(r.arg.officer_id)
           row == [r.snap EXCEPT !.police_officer = r.arg.officer_id]
       IN /\ firs' = IF found THEN [firs EXCEPT ![f] = row] ELSE firs
          /\ notifications' =
                IF found
                THEN notifications \cup
                     send_fir_notification(f, row, assigned_team[f], "reassigned",
                                           r.user, r.id)
                ELSE notifications
    /\ Finish(s, "302 admin_fir_detail")
    /\ UNCHANGED <<stations, issued, role, station, assigned_team, suggestions, suggestion_seq, evidence, witnesses,
                   hearings, notes, nreq, quota>>

\* --------------------------------------------------------- assign_team_view
assign_team_view(s, u, f, ids) ==
    /\ Accept(s)
    /\ Enter(s, "assign_team", u, f, [NoArg EXCEPT !.team_members = ids])

\* A variant of assign_team_post that adds to the team without clearing it.
assign_team_post_appends(s) ==
    /\ Running(s, "assign_team")
    /\ LET r == req[s]
           f == r.fir
           team == assigned_team[f] \cup {m \in r.arg.team_members : OfficerExists(m)}
       IN /\ assigned_team' = [assigned_team EXCEPT ![f] = team]
          /\ firs' = [firs EXCEPT ![f] = r.snap]
          /\ notifications' = notifications \cup
                send_fir_notification(f, r.snap, team, "team_updated", r.user, r.id)
    /\ Finish(s, "302 officer_fir_detail")
    /\ UNCHANGED <<stations, issued, role, station, suggestions, suggestion_seq, evidence,
                   witnesses, hearings, notes, nreq, quota>>

\* clear(), add() for every posted id that is a police officer, save(), fan-out.
assign_team_post(s) ==
    /\ Running(s, "assign_team")
    /\ LET r == req[s]
           f == r.fir
           team == {m \in r.arg.team_members : OfficerExists(m)}
       IN /\ assigned_team' = [assigned_team EXCEPT ![f] = team]
          /\ firs' = [firs EXCEPT ![f] = r.snap]
          /\ notifications' = notifications \cup
                send_fir_notification(f, r.snap, team, "team_updated", r.user, r.id)
    /\ Finish(s, "302 officer_fir_detail")
    /\ UNCHANGED <<stations, issued, role, station, suggestions, suggestion_seq, evidence, witnesses, hearings, notes, nreq, quota>>


\* ----------------------------------------------------- upload_evidence_view
\* file: the uploaded file's extension (None: no file); et: the posted
\* evidence_type ("absent": the key is not posted, "": posted empty).
upload_evidence_view(s, u, f, file, et) ==
    /\ Accept(s)
    /\ Enter(s, "upload_evidence", u, f, [NoArg EXCEPT !.file = file, !.evidence_type = et])

\* Evidence.save: the type is derived from the extension only when it is empty;
\* an extension of none of the four groups leaves it empty.
EvidenceSaveType(evidence_type, ext) ==
    IF evidence_type # "" THEN evidence_type
    ELSE IF ext \in {"jpg", "jpeg", "png", "gif"} THEN "photo"
    ELSE IF ext \in {"mp4", "mov", "avi"} THEN "video"
    ELSE IF ext \in {"mp3", "wav", "m4a", "ogg"} THEN "audio"
    ELSE IF ext \in {"pdf", "doc", "docx"} THEN "document"
    ELSE ""

\* request.POST.get('evidence_type', 'other')
PostedEvidenceType(et) == IF et = "absent" THEN "other" ELSE et

upload_evidence_post(s) ==
    /\ Running(s, "upload_evidence")
    /\ LET r == req[s]
       IN evidence' = evidence \cup
            {[fir |-> r.fir, uploaded_by |-> r.user,
              evidence_type |-> EvidenceSaveType(PostedEvidenceType(r.arg.evidence_type),
                                                 r.arg.file),
              transcription |-> FALSE, call |-> r.id]}
    /\ Finish(s, "200 success")
    /\ UNCHANGED <<stations, issued, role, station, firs, assigned_team, suggestions, suggestion_seq, witnesses, hearings,
                   notes, notifications, nreq, quota>>

\* ----------------------------------------------------- transcribe_audio_view
\* svc: what the speech-to-text service does with the upload ("200", "non200",
\* "exception").  urls.py routes this view only with a fir_pk.
transcribe_audio_view(s, u, f, file, svc) ==
    /\ Accept(s)
    /\ Enter(s, "transcribe_audio", u, f, [NoArg EXCEPT !.file = file, !.service = svc])

\* The Evidence row for the audio and the InvestigationNote with its text.
transcribe_audio_post(s) ==
    /\ Running(s, "transcribe_audio")
    /\ LET r == req[s]
       IN /\ evidence' = evidence \cup
                {[fir |-> r.fir, uploaded_by |-> r.user,
                  evidence_type |-> EvidenceSaveType("audio", r.arg.file),
                  transcription |-> TRUE, call |-> r.id]}
          /\ notes' = notes \cup {[fir |-> r.fir, created_by |-> r.user, call |-> r.id]}
    /\ Finish(s, "200 success")
    /\ UNCHANGED <<stations, issued, role, station, firs, assigned_team, suggestions, suggestion_seq, witnesses, hearings,
                   notifications, nreq, quota>>

\* ------------------------------------------- generate_legal_suggestions_view
generate_legal_suggestions_view(s, u, f) ==
    /\ Accept(s)
    /\ Enter(s, "generate_legal_suggestions", u, f, NoArg)

\* Variants of the delete step: one deletes every suggestion, one deletes none.
generate_legal_suggestions_delete_all(s) ==
    /\ Running(s, "generate_legal_suggestions")
    /\ suggestions' = {}
    /\ req' = [req EXCEPT ![s].pc = "creating", ![s].i = 1]
    /\ UNCHANGED <<stations, issued, role, station, firs, assigned_team, suggestion_seq, evidence, witnesses, hearings,
                   notes, notifications, nreq, quota>>

generate_legal_suggestions_delete_none(s) ==
    /\ Running(s, "generate_legal_suggestions")
    /\ suggestions' = suggestions
    /\ req' = [req EXCEPT ![s].pc = "creating", ![s].i = 1]
    /\ UNCHANGED <<stations, issued, role, station, firs, assigned_team, suggestion_seq, evidence, witnesses, hearings,
                   notes, notifications, nreq, quota>>

\* LegalSuggestion.objects.filter(fir=fir).delete()
generate_legal_suggestions_delete(s) ==
    /\ Running(s, "generate_legal_suggestions")
    /\ suggestions' = {x \in suggestions : x.fir # req[s].fir}
    /\ req' = [req EXCEPT ![s].pc = "creating", ![s].i = 1]
    /\ UNCHANGED <<stations, issued, role, station, firs, assigned_team, suggestion_seq, evidence, witnesses, hearings,
                   notes, notifications, nreq, quota>>

\* One pass of "for suggestion in mock_suggestions: LegalSuggestion.objects.create".
generate_legal_suggestions_create(s) ==
    /\ req[s].pc = "creating"
    /\ LET r == req[s]
           m == mock_suggestions[r.i]
           pk == suggestion_seq + 1
       IN /\ suggestions' = suggestions \cup
                {[id |-> pk, fir |-> r.fir, ipc_section |-> m.ipc_section,
                  confidence_score |-> m.confidence_score]}
          /\ suggestion_seq' = pk
          /\ req' = IF r.i = Len(mock_suggestions)
                    THEN [req EXCEPT ![s].pc = "done", ![s].out = "302 officer_fir_detail",
                                     ![s].created = @ \cup {pk}]
                    ELSE [req EXCEPT ![s].i = r.i + 1, ![s].created = @ \cup {pk}]
    /\ UNCHANGED <<stations, issued, role, station, firs, assigned_team, evidence, witnesses, hearings,
                   notes, notifications, nreq, quota>>

\* ----------------------------------------------------- manage_witnesses_view
manage_witnesses_view(s, u, f) ==
    /\ Accept(s)
    /\ Enter(s, "manage_witnesses", u, f, NoArg)

manage_witnesses_post(s) ==
    /\ Running(s, "manage_witnesses")
    /\ witnesses' = witnesses \cup {[fir |-> req[s].fir, call |-> req[s].id]}
    /\ Finish(s, "302 manage_witnesses")
    /\ UNCHANGED <<stations, issued, role, station, firs, assigned_team, suggestions, suggestion_seq, evidence, hearings,
                   notes, notifications, nreq, quota>>

\* ------------------------------------------------------- court_hearings_view
\* complete: both hearing_date and purpose are posted.
court_hearings_view(s, u, f, complete) ==
    /\ Accept(s)
    /\ Enter(s, "court_hearings", u, f, [NoArg EXCEPT !.complete = complete])

court_hearings_post(s) ==
    /\ Running(s, "court_hearings")
    /\ LET r == req[s]
       IN /\ hearings' = IF r.arg.complete
                         THEN hearings \cup {[fir |-> r.fir, added_by |-> r.user, call |-> r.id]}
                         ELSE hearings
          /\ Finish(s, IF r.arg.complete THEN "302 court_hearings" ELSE "200 render")
    /\ UNCHANGED <<stations, issued, role, station, firs, assigned_team, suggestions, suggestion_seq, evidence, witnesses,
                   notes, notifications, nreq, quota>>

\* --------------------------------------------------- officer_fir_create_view
officer_fir_create_view(s, u) ==
    /\ Accept(s)
    /\ Cardinality(DOMAIN firs) + Cardinality({t \in Slots : Running(t, "officer_fir_create")})
          < Cardinality(FirIds)
    /\ Enter(s, "officer_fir_create", u, None, NoArg)

\* A variant of officer_fir_create_post that files the FIR as submitted.
officer_fir_create_post_submitted(s) ==
    /\ Running(s, "officer_fir_create")
    /\ DOMAIN firs # FirIds
    /\ LET r == req[s]
           pk == CHOOSE f \in FirIds \ DOMAIN firs : TRUE
       IN IF station[r.user] = None
          THEN /\ Finish(s, "500")
               /\ UNCHANGED <<firs, assigned_team>>
          ELSE /\ firs' = [f \in DOMAIN firs \cup {pk} |->
                             IF f = pk
                             THEN [status |-> "submitted", police_officer |-> r.user,
                                   station |-> station[r.user], details |-> "d0"]
                             ELSE firs[f]]
               /\ assigned_team' = [f \in DOMAIN firs \cup {pk} |->
                                      IF f = pk THEN {} ELSE assigned_team[f]]
               /\ req' = [req EXCEPT ![s].pc = "done", ![s].out = "302 officer_fir_detail",
                                     ![s].fir = pk]
    /\ UNCHANGED <<stations, issued, role, station, suggestions, suggestion_seq, evidence, witnesses, hearings, notes,
                   notifications, nreq, quota>>

\* FIR.objects.create(..., police_officer=request.user, station=request.user.station,
\* status='draft'); FIR.station is not nullable, so a creator without a station
\* makes the insert fail (a 500 answer, no row).
officer_fir_create_post(s) ==
    /\ Running(s, "officer_fir_create")
    /\ DOMAIN firs # FirIds
    /\ LET r == req[s]
           pk == CHOOSE f \in FirIds \ DOMAIN firs : TRUE
       IN IF station[r.user] = None
          THEN /\ Finish(s, "500")
               /\ UNCHANGED <<firs, assigned_team>>
          ELSE /\ firs' = [f \in DOMAIN firs \cup {pk} |->
                             IF f = pk
                             THEN [status |-> "draft", police_officer |-> r.user,
                                   station |-> station[r.user], details |-> "d0"]
                             ELSE firs[f]]
               /\ assigned_team' = [f \in DOMAIN firs \cup {pk} |->
                                      IF f = pk THEN {} ELSE assigned_team[f]]
               /\ req' = [req EXCEPT ![s].pc = "done", ![s].out = "302 officer_fir_detail",
                                     ![s].fir = pk]
    /\ UNCHANGED <<stations, issued, role, station, suggestions, suggestion_seq, evidence, witnesses, hearings, notes,
                   notifications, nreq, quota>>

\* ------------------------------------------------------- manage_evidence_view
\* Read only: get_object_or_404, can_access_fir, render.
manage_evidence_view(s, u, f) ==
    /\ Accept(s)
    /\ Enter(s, "manage_evidence", u, f, NoArg)

\* ------------------------------------------------------ send_fir_notification
\* send_fir_notification(fir, action, actor) called on a FIR of the database.
send_fir_notification_call(s, f, action, actor) ==
    /\ Accept(s)
    /\ f \in DOMAIN firs
    /\ notifications' = notifications \cup
          send_fir_notification(f, firs[f], assigned_team[f], action, actor, nreq + 1)
    /\ req' = [req EXCEPT ![s] =
                 [IdleRequest EXCEPT !.id = nreq + 1, !.kind = "send_fir_notification",
                                     !.user = actor, !.fir = f, !.snap = firs[f],
                                     !.arg = [NoArg EXCEPT !.action = action],
                                     !.pc = "done"]]
    /\ nreq' = nreq + 1
    /\ UNCHANGED <<stations, issued, role, station, firs, assigned_team, suggestions, suggestion_seq, evidence,
                   witnesses, hearings, notes, quota>>

\* ------------------------------------------------ mark_notification_read_view
\* The primary key of a Notification row.
notification_pk(x) == <<x.call, x.user>>

\* A variant of mark_notification_read_view that looks the row up by pk alone.
mark_notification_read_view_any_user(s, u, nid) ==
    /\ Accept(s)
    /\ LET found == {x \in notifications : notification_pk(x) = nid}
       IN /\ notifications' = {IF x \in found THEN [x EXCEPT !.read = TRUE] ELSE x
                                  : x \in notifications}
          /\ req' = [req EXCEPT ![s] =
                       [IdleRequest EXCEPT !.id = nreq + 1, !.kind = "mark_notification_read",
                                           !.user = u, !.arg = [NoArg EXCEPT !.notification_id = nid],
                                           !.pc = "done",
                                           !.out = IF found = {} THEN "404" ELSE "302 link"]]
    /\ nreq' = nreq + 1
    /\ UNCHANGED <<stations, issued, role, station, firs, assigned_team, suggestions, suggestion_seq, evidence,
                   witnesses, hearings, notes, quota>>

\* get_object_or_404(Notification, pk=notification_id, user=request.user),
\* read = True, save(), redirect to the row's link.
mark_notification_read_view(s, u, nid) ==
    /\ Accept(s)
    /\ LET found == {x \in notifications : notification_pk(x) = nid /\ x.user = u}
       IN /\ notifications' = {IF x \in found THEN [x EXCEPT !.read = TRUE] ELSE x
                                  : x \in notifications}
          /\ req' = [req EXCEPT ![s] =
                       [IdleRequest EXCEPT !.id = nreq + 1, !.kind = "mark_notification_read",
                                           !.user = u, !.arg = [NoArg EXCEPT !.notification_id = nid],
                                           !.pc = "done",
                                           !.out = IF found = {} THEN "404" ELSE "302 link"]]
    /\ nreq' = nreq + 1
    /\ UNCHANGED <<stations, issued, role, station, firs, assigned_team, suggestions, suggestion_seq, evidence,
                   witnesses, hearings, notes, quota>>

\* ------------------------------------------------ station and user views
\* The tables the admin views of stations and users write, and the rest.
accounts == <<stations, issued, role, station>>

\* A request of user u to view k that runs in one step and answers o.  pk is
\* the primary key in the URL; a holds the posted fields.
AdminRequest(s, k, u, pk, a, o) ==
    /\ req' = [req EXCEPT ![s] =
                 [IdleRequest EXCEPT !.id = nreq + 1, !.kind = k, !.user = u,
                                     !.arg = [a EXCEPT !.pk = pk], !.pc = "done", !.out = o]]
    /\ nreq' = nreq + 1
    /\ UNCHANGED quota

\* The function t without the row of pk.
Without(t, pk) == [x \in DOMAIN t \ {pk} |-> t[x]]

\* The function t with the row pk |-> v inserted or replaced.
With(t, pk, v) == [x \in DOMAIN t \cup {pk} |-> IF x = pk THEN v ELSE t[x]]

\* station_create_view: Station.objects.create(name=...).
station_create_view(s, u, name) ==
    /\ Accept(s)
    /\ u \in DOMAIN role
    /\ IF ~is_admin(u)
       THEN /\ AdminRequest(s, "station_create", u, None, [NoArg EXCEPT !.name = name], "403")
            /\ UNCHANGED <<accounts, db>>
       ELSE /\ Stations \ issued # {}
            /\ LET pk == CHOOSE p \in Stations \ issued : TRUE
               IN /\ stations' = With(stations, pk, name)
                  /\ issued' = issued \cup {pk}
            /\ AdminRequest(s, "station_create", u, None, [NoArg EXCEPT !.name = name],
                            "302 station_list")
            /\ UNCHANGED <<role, station, db>>

\* station_edit_view: get_object_or_404, the posted fields, save().
station_edit_view(s, u, pk, name) ==
    /\ Accept(s)
    /\ u \in DOMAIN role
    /\ LET o == IF ~is_admin(u) THEN "403"
                ELSE IF pk \notin DOMAIN stations THEN "404"
                ELSE "302 station_list"
       IN /\ stations' = IF o = "302 station_list" THEN With(stations, pk, name) ELSE stations
          /\ AdminRequest(s, "station_edit", u, pk, [NoArg EXCEPT !.name = name], o)
    /\ UNCHANGED <<issued, role, station, db>>

\* station_delete_view: get_object_or_404, delete().  FIR.station is PROTECT
\* (the delete fails while a FIR is filed at the station), User.station is
\* SET_NULL.
station_delete_view(s, u, pk) ==
    /\ Accept(s)
    /\ u \in DOMAIN role
    /\ LET o == IF ~is_admin(u) THEN "403"
                ELSE IF pk \notin DOMAIN stations THEN "404"
                ELSE IF \E f \in DOMAIN firs : firs[f].station = pk THEN "500"
                ELSE "302 station_list"
       IN /\ stations' = IF o = "302 station_list" THEN Without(stations, pk) ELSE stations
          /\ station' = IF o = "302 station_list"
                        THEN [x \in DOMAIN station |-> IF station[x] = pk THEN None ELSE station[x]]
                        ELSE station
          /\ AdminRequest(s, "station_delete", u, pk, NoArg, o)
    /\ UNCHANGED <<issued, role, db>>

\* user_create_view: create_user(username, password, role) stores the posted
\* role; then, for a posted station id, Station.objects.get raises DoesNotExist
\* for an unknown id (a 500 answer, after the user row has been inserted).
user_create_view(s, u, r, station_id) ==
    /\ Accept(s)
    /\ u \in DOMAIN role
    /\ LET a == [NoArg EXCEPT !.role = r, !.station = station_id]
       IN IF ~is_admin(u)
          THEN /\ AdminRequest(s, "user_create", u, None, a, "403")
               /\ UNCHANGED <<accounts, db>>
          ELSE /\ Users \ issued # {}
               /\ LET pk == CHOOSE x \in Users \ issued : TRUE
                      found == station_id \in DOMAIN stations
                  IN /\ role' = With(role, pk, r)
                     /\ station' = With(station, pk, IF found THEN station_id ELSE None)
                     /\ issued' = issued \cup {pk}
                     /\ AdminRequest(s, "user_create", u, None, a,
                                     IF station_id # None /\ ~found THEN "500"
                                     ELSE "302 user_list")
               /\ UNCHANGED <<stations, db>>

\* user_edit_view: get_object_or_404, the posted role, the posted station
\* (Station.objects.get raises for an unknown id, before save), save().
user_edit_view(s, u, pk, r, station_id) ==
    /\ Accept(s)
    /\ u \in DOMAIN role
    /\ LET o == IF ~is_admin(u) THEN "403"
                ELSE IF pk \notin DOMAIN role THEN "404"
                ELSE IF station_id # None /\ station_id \notin DOMAIN stations THEN "500"
                ELSE "302 user_list"
       IN /\ role' = IF o = "302 user_list" THEN With(role, pk, r) ELSE role
          /\ station' = IF o = "302 user_list" THEN With(station, pk, station_id) ELSE station
          /\ AdminRequest(s, "user_edit", u, pk,
                          [NoArg EXCEPT !.role = r, !.station = station_id], o)
    /\ UNCHANGED <<stations, issued, db>>

\* user_delete_view: get_object_or_404, delete().  FIR.police_officer is
\* PROTECT; the team rows and the Notification rows of the user go with the
\* user (CASCADE); uploaded_by, created_by and added_by are SET_NULL.
user_delete_view(s, u, pk) ==
    /\ Accept(s)
    /\ u \in DOMAIN role
    /\ LET o == IF ~is_admin(u) THEN "403"
                ELSE IF pk \notin DOMAIN role THEN "404"
                ELSE IF \E f \in DOMAIN firs : firs[f].police_officer = pk THEN "500"
                ELSE "302 user_list"
           deleted == o = "302 user_list"
       IN /\ role' = IF deleted THEN Without(role, pk) ELSE role
          /\ station' = IF deleted THEN Without(station, pk) ELSE station
          /\ assigned_team' = IF deleted
                              THEN [f \in DOMAIN assigned_team |-> assigned_team[f] \ {pk}]
                              ELSE assigned_team
          /\ notifications' = IF deleted THEN {x \in notifications : x.user # pk}
                              ELSE notifications
          /\ evidence' = IF deleted
                         THEN {IF x.uploaded_by = pk THEN [x EXCEPT !.uploaded_by = None] ELSE x
                                 : x \in evidence}
                         ELSE evidence
          /\ notes' = IF deleted
                      THEN {IF x.created_by = pk THEN [x EXCEPT !.created_by = None] ELSE x
                              : x \in notes}
                      ELSE notes
          /\ hearings' = IF deleted
                         THEN {IF x.added_by = pk THEN [x EXCEPT !.added_by = None] ELSE x
                                 : x \in hearings}
                         ELSE hearings
          /\ AdminRequest(s, "user_delete", u, pk, NoArg, o)
    /\ UNCHANGED <<stations, issued, firs, suggestions, suggestion_seq, witnesses>>

\* ------------------------------------------- app.py, speechtotext.py, client
\* GoogleTranslator(source="auto", target="en").translate(text): the service
\* translates ("ok"), returns nothing ("empty") or raises.
GoogleTranslator(text, translator) ==
    [raised |-> translator = "raises",
     value |-> IF translator = "ok" THEN <<"en", text>> ELSE <<>>]

\* vectorizer.transform and ipc_model.predict: a label, or an exception.
ipc_model_predict(translated_text, classifier) ==
    [raised |-> classifier = "raises", value |-> "IPC 420"]

\* A variant of predict_from_text that lets a failed prediction reach the outer handler.
predict_from_text_unguarded(text, translator, classifier) ==
    IF text = ""
    THEN [status |-> "400", body |-> [NoBody EXCEPT !.error = "No valid text provided"]]
    ELSE LET t == GoogleTranslator(text, translator)
             translated_text ==
                 IF t.raised THEN <<"[Translation failed:", "e", "] Original:", text>>
                 ELSE t.value
             p == ipc_model_predict(translated_text, classifier)
         IN IF translated_text # <<>> /\ p.raised
            THEN [status |-> "500", body |-> [NoBody EXCEPT !.error = "Internal server error"]]
            ELSE [status |-> "200",
                  body |-> [NoBody EXCEPT !.original_text = text,
                                          !.translated_text = translated_text,
                                          !.ipc_section = IF translated_text = <<>>
                                                          THEN "Unknown" ELSE p.value,
                                          !.confidence_score = 85]]

\* app.py predict_from_text, for a JSON request with the stripped text.
predict_from_text(text, translator, classifier) ==
    IF text = ""
    THEN [status |-> "400", body |-> [NoBody EXCEPT !.error = "No valid text provided"]]
    ELSE LET t == GoogleTranslator(text, translator)
             translated_text ==
                 IF t.raised THEN <<"[Translation failed:", "e", "] Original:", text>>
                 ELSE t.value
             p == ipc_model_predict(translated_text, classifier)
             ipc_section ==
                 IF translated_text = <<>> THEN "Unknown"
                 ELSE IF p.raised THEN "Prediction failed"
                 ELSE p.value
         IN [status |-> "200",
             body |-> [NoBody EXCEPT !.original_text = text,
                                     !.translated_text = translated_text,
                                     !.ipc_section = ipc_section,
                                     !.confidence_score = 85]]

\* speechtotext.py translate_to_english: the translation, or the error message.
translate_to_english(text, translator) ==
    LET t == GoogleTranslator(text, translator)
    IN [raised |-> FALSE,
        value |-> IF t.raised THEN <<"Translation error:", "e">> ELSE t.value]

\* app.py translate_to_english: no handler around the translator.
app_translate_to_english(text, translator) ==
    IF text = "" THEN [raised |-> FALSE, value |-> <<>>]
    ELSE GoogleTranslator(text, translator)

\* app.py transcribe_audio: the recognised text ("xyz"), one of two messages
\* returned in its place, or an exception of sr.AudioFile.
transcribe_audio(recognizer) ==
    [raised |-> recognizer = "raises",
     value |-> CASE recognizer = "ok" -> "xyz"
                 [] recognizer = "unknown_value" -> "Could not understand the audio."
                 [] recognizer = "request_error" -> "Google API request failed."
                 [] OTHER -> None]

\* app.py predict_ipc_section
predict_ipc_section(translated_text, classifier) ==
    IF translated_text = <<>> THEN [raised |-> FALSE, value |-> "Unknown"]
    ELSE ipc_model_predict(translated_text, classifier)

\* app.py upload_audio, for a request with a file: the three calls in one try.
upload_audio(recognizer, translator, classifier) ==
    LET text == transcribe_audio(recognizer)
        translated_text == app_translate_to_english(text.value, translator)
        ipc_section == predict_ipc_section(translated_text.value, classifier)
    IN IF text.raised \/ translated_text.raised \/ ipc_section.raised
       THEN [status |-> "500", body |-> [NoBody EXCEPT !.error = "e"]]
       ELSE [status |-> "200",
             body |-> [NoBody EXCEPT !.original_text = text.value,
                                     !.translated_text = translated_text.value,
                                     !.ipc_section = ipc_section.value,
                                     !.confidence_score = 85]]

\* AIServiceClient.predict_ipc_sections: requests.post to /predict (the
\* connection may fail), raise_for_status, .get('predicted_sections', []);
\* every exception is answered with [].
predict_ipc_sections(text, translator, classifier, network) ==
    IF network = "down" THEN [raised |-> FALSE, value |-> <<>>]
    ELSE LET response == predict_from_text(text, translator, classifier)
         IN [raised |-> FALSE,
             value |-> IF response.status # "200" THEN <<>>
                       ELSE response.body.predicted_sections]

\* A call that runs in one step in slot s and leaves its arguments and result.
Call(s, k, a, o, b) ==
    /\ Accept(s)
    /\ req' = [req EXCEPT ![s] =
                 [IdleRequest EXCEPT !.id = nreq + 1, !.kind = k, !.arg = a, !.pc = "done",
                                     !.out = o, !.body = b]]
    /\ nreq' = nreq + 1
    /\ UNCHANGED <<stations, issued, role, station, db, quota>>

predict_from_text_call(s, text, translator, classifier) ==
    /\ Accept(s)
    /\ LET response == predict_from_text(text, translator, classifier)
       IN Call(s, "predict_from_text",
               [NoArg EXCEPT !.text = text, !.translator = translator,
                             !.classifier = classifier],
               response.status, response.body)

translate_to_english_call(s, text, translator) ==
    /\ Accept(s)
    /\ LET result == translate_to_english(text, translator)
       IN Call(s, "translate_to_english",
               [NoArg EXCEPT !.text = text, !.translator = translator],
               IF result.raised THEN "raised" ELSE "returned",
               [NoBody EXCEPT !.translated_text = result.value])

upload_audio_call(s, recognizer, translator, classifier) ==
    /\ Accept(s)
    /\ LET response == upload_audio(recognizer, translator, classifier)
       IN Call(s, "upload_audio",
               [NoArg EXCEPT !.recognizer = recognizer, !.translator = translator,
                             !.classifier = classifier],
               response.status, response.body)

predict_ipc_sections_call(s, text, translator, classifier, network) ==
    /\ Accept(s)
    /\ LET result == predict_ipc_sections(text, translator, classifier, network)
       IN Call(s, "predict_ipc_sections",
               [NoArg EXCEPT !.text = text, !.translator = translator,
                             !.classifier = classifier, !.network = network],
               IF result.raised THEN "raised" ELSE "returned",
               [NoBody EXCEPT !.predicted_sections = result.value])

\* ------------------------------------------------------------ the system
\* What a request may post.
StatusArgs == STATUS_CHOICES \cup {"bogus", None}
SuggestionIdArgs == {0} \cup {x.id : x \in suggestions}
DetailsArgs == {"d1"}
OfficerIdArgs == Users \cup {None, "u9"}
TeamArgs == {{}, {"u3"}, {"u1", "u3"}}
FileArgs == {None, "jpg"}
EvidenceTypeArgs == {"absent", "photo"}
ServiceArgs == {"200", "non200", "exception"}
\* The extensions Evidence.save knows, and one it does not.
ExtensionArgs ==
    {"jpg", "jpeg", "png", "gif", "mp4", "mov", "avi", "mp3", "wav", "m4a", "ogg",
     "pdf", "doc", "docx", "xyz"}
\* evidence_type not posted, posted empty, posted as one of the choices.
UploadTypeArgs == {"absent", ""} \cup EVIDENCE_TYPES
TextArgs == {"", "xyz"}
TranslatorArgs == {"ok", "empty", "raises"}
ClassifierArgs == {"ok", "raises"}
RecognizerArgs == {"ok", "unknown_value", "request_error", "raises"}
NetworkArgs == {"up", "down"}
RoleArgs == Roles
StationIdArgs == Stations \cup {None}
NameArgs == {"n1"}
\* Posted member ids: nobody, users of the table, and an id no user has.
TeamIdArgs == {{}, {"u3"}, {"u1", "u3"}, {"u2", "u9"}}
NotificationIdArgs == {<<0, None>>} \cup {notification_pk(x) : x \in notifications}
ActionArgs == {"status_change", "reassigned", "team_updated", "rejected", "overdue"}

EmptyTables ==
    /\ suggestions = {}
    /\ suggestion_seq = 0
    /\ evidence = {}
    /\ witnesses = {}
    /\ hearings = {}
    /\ notes = {}
    /\ notifications = {}
    /\ req = [s \in Slots |-> IdleRequest]
    /\ nreq = 0

\* A database with an admin (u1), two officers (u2 with a station, u3 without)
\* and one FIR, f1, filed by u2 and anywhere in the workflow, with or without
\* u3 in its team; no other rows yet.
Database ==
    /\ stations = [p \in {"s1"} |-> "n0"]
    /\ issued = Users \cup {"s1"}
    /\ role = [u \in Users |-> IF u = "u1" THEN "admin" ELSE "police_officer"]
    /\ station = [u \in Users |-> IF u = "u2" THEN "s1" ELSE None]
    /\ \E st \in STATUS_CHOICES, team \in SUBSET {"u3"} :
          /\ firs = [f \in {"f1"} |->
                       [status |-> st, police_officer |-> "u2", station |-> "s1",
                        details |-> "d0"]]
          /\ assigned_team = [f \in {"f1"} |-> team]
    /\ EmptyTables

Init == quota = MaxConcurrentRequests /\ Database

SeqInit == quota = MaxAnyRequests /\ Database

StatusInit == quota = MaxRequests /\ Database

SuggestionInit == quota = MaxRequests /\ Database

\* officer_fir_detail_view on the FIRs of F, posting a status of sts or a
\* suggestion id of sids (None, 0: the key is not posted).
FirDetail(s, F, sts, sids) ==
    \/ \E u \in Users, f \in F, st \in sts, sid \in sids :
          officer_fir_detail_view(s, u, f, st, sid)
    \/ officer_fir_detail_post(s)

\* The other views that write the FIR row or its team.
FirWrites(s, F) ==
    \/ \E u \in Users, f \in F, d \in DetailsArgs : officer_fir_update_view(s, u, f, d)
    \/ officer_fir_update_post(s)
    \/ \E u \in Users, f \in F, oid \in OfficerIdArgs : admin_fir_detail_view(s, u, f, oid)
    \/ admin_fir_detail_post(s)
    \/ \E u \in Users, f \in F, ids \in TeamArgs : assign_team_view(s, u, f, ids)
    \/ assign_team_post(s)

GenerateSuggestions(s, F) ==
    \/ \E u \in Users, f \in F : generate_legal_suggestions_view(s, u, f)
    \/ generate_legal_suggestions_delete(s)
    \/ generate_legal_suggestions_create(s)

UploadEvidence(s, F) ==
    \/ \E u \in Users, f \in F, file \in FileArgs, et \in EvidenceTypeArgs :
          upload_evidence_view(s, u, f, file, et)
    \/ upload_evidence_post(s)

CreateFir(s) ==
    \/ \E u \in Users : officer_fir_create_view(s, u)
    \/ officer_fir_create_post(s)

\* The remaining views.
OtherViews(s, F) ==
    \/ \E u \in Users, f \in F, file \in FileArgs, svc \in ServiceArgs :
          transcribe_audio_view(s, u, f, file, svc)
    \/ transcribe_audio_post(s)
    \/ \E u \in Users, f \in F : manage_witnesses_view(s, u, f)
    \/ manage_witnesses_post(s)
    \/ \E u \in Users, f \in F, c \in BOOLEAN : court_hearings_view(s, u, f, c)
    \/ court_hearings_post(s)
    \/ \E u \in Users, f \in F : manage_evidence_view(s, u, f)

\* Two requests on the existing FIRs interleave step by step.
Next ==
    \E s \in Slots :
        \/ FirDetail(s, DOMAIN firs, StatusArgs, SuggestionIdArgs)
        \/ FirWrites(s, DOMAIN firs)
        \/ GenerateSuggestions(s, DOMAIN firs)
        \/ UploadEvidence(s, DOMAIN firs)

Spec == Init /\ [][Next]_vars

\* One request at a time: every request runs to its response before the next
\* enters.  Every view, on every FIR id.
SeqNext ==
    \/ FirDetail("r1", FirIds, StatusArgs, SuggestionIdArgs)
    \/ FirWrites("r1", FirIds)
    \/ GenerateSuggestions("r1", FirIds)
    \/ UploadEvidence("r1", FirIds)
    \/ CreateFir("r1")
    \/ OtherViews("r1", FirIds)

SeqSpec == SeqInit /\ [][SeqNext]_vars

\* The same requests on a database whose FIR is closed or one step from it.
ClosedInit == SeqInit /\ firs["f1"].status \in {"under_investigation", "closed"}

ClosedSpec == ClosedInit /\ [][SeqNext]_vars

\* One request at a time, only status updates.
StatusNext == FirDetail("r1", FirIds, StatusArgs, {0})

StatusSpec == StatusInit /\ [][StatusNext]_vars

\* One request at a time, only the views that write LegalSuggestion rows, and
\* FIR creation.
SuggestionNext ==
    \/ GenerateSuggestions("r1", FirIds)
    \/ FirDetail("r1", FirIds, {None}, SuggestionIdArgs)
    \/ CreateFir("r1")

SuggestionSpec == SuggestionInit /\ [][SuggestionNext]_vars

\* can_access_fir on every users table and every owner and team of f1: the
\* requests are those of manage_evidence_view, which only evaluates it.
AccessInit ==
    /\ quota = MaxRequests
    /\ stations = [p \in Stations |-> "n0"]
    /\ issued = Users \cup Stations
    /\ role \in [Users -> Roles]
    /\ station \in [Users -> Stations]
    /\ \E o \in Users, team \in SUBSET Users :
          /\ firs = [f \in {"f1"} |->
                       [status |-> "draft", police_officer |-> o, station |-> "s1",
                        details |-> "d0"]]
          /\ assigned_team = [f \in {"f1"} |-> team]
    /\ EmptyTables

AccessNext == \E u \in Users, f \in FirIds : manage_evidence_view("r1", u, f)

AccessSpec == AccessInit /\ [][AccessNext]_vars

\* send_fir_notification on every users table and every team of f1.
NotifierInit ==
    /\ quota = MaxAnyRequests
    /\ stations = [p \in {"s1"} |-> "n0"]
    /\ issued = Users \cup {"s1"}
    /\ role \in [Users -> Roles]
    /\ station = [u \in Users |-> IF u = "u2" THEN "s1" ELSE None]
    /\ \E team \in SUBSET Users :
          /\ firs = [f \in {"f1"} |->
                       [status |-> "draft", police_officer |-> "u2", station |-> "s1",
                        details |-> "d0"]]
          /\ assigned_team = [f \in {"f1"} |-> team]
    /\ EmptyTables

NotifierNext ==
    \E f \in FirIds, action \in ActionArgs, actor \in Users :
        send_fir_notification_call("r1", f, action, actor)

NotifierSpec == NotifierInit /\ [][NotifierNext]_vars

\* One request at a time: the views that call send_fir_notification, with
\* posts they accept, and mark_notification_read_view.
NotificationInit == quota = MaxRequests /\ Database

NotificationNext ==
    \/ FirDetail("r1", DOMAIN firs, {"submitted", "closed"}, {0})
    \/ \E u \in Users, f \in DOMAIN firs : admin_fir_detail_view("r1", u, f, "u3")
    \/ admin_fir_detail_post("r1")
    \/ \E u \in Users, f \in DOMAIN firs : assign_team_view("r1", u, f, {"u3"})
    \/ assign_team_post("r1")
    \/ \E u \in Users, nid \in NotificationIdArgs : mark_notification_read_view("r1", u, nid)

NotificationSpec == NotificationInit /\ [][NotificationNext]_vars

\* One request at a time: evidence uploads of every extension and posted type
\* on a draft f1 without a team.
EvidenceInit ==
    /\ quota = MaxAnyRequests
    /\ Database
    /\ firs["f1"].status = "draft"
    /\ assigned_team["f1"] = {}

EvidenceNext ==
    \/ \E u \in Users, f \in FirIds, file \in ExtensionArgs, et \in UploadTypeArgs :
          upload_evidence_view("r1", u, f, file, et)
    \/ upload_evidence_post("r1")

EvidenceSpec == EvidenceInit /\ [][EvidenceNext]_vars

\* One call at a time: the functions of the text and audio pipelines on every
\* behaviour of the external services, and transcribe_audio_view.
PipelineInit == quota = MaxRequests /\ Database

PipelineNext ==
    \/ \E text \in TextArgs, translator \in TranslatorArgs, classifier \in ClassifierArgs :
          predict_from_text_call("r1", text, translator, classifier)
    \/ \E text \in TextArgs, translator \in TranslatorArgs :
          translate_to_english_call("r1", text, translator)
    \/ \E recognizer \in RecognizerArgs, translator \in TranslatorArgs,
          classifier \in ClassifierArgs :
          upload_audio_call("r1", recognizer, translator, classifier)
    \/ \E text \in TextArgs, translator \in TranslatorArgs, classifier \in ClassifierArgs,
          network \in NetworkArgs :
          predict_ipc_sections_call("r1", text, translator, classifier, network)
    \/ \E u \in Users, f \in DOMAIN firs, file \in FileArgs, svc \in ServiceArgs :
          transcribe_audio_view("r1", u, f, file, svc)
    \/ transcribe_audio_post("r1")

PipelineSpec == PipelineInit /\ [][PipelineNext]_vars


\* One request of a view that calls send_fir_notification, on every users
\* table and every owner and team of a submitted f1.
FanoutInit ==
    /\ quota = MaxFanoutRequests
    /\ stations = [p \in {"s1"} |-> "n0"]
    /\ issued = Users \cup {"s1"}
    /\ role \in [Users -> Roles]
    /\ station = [u \in Users |-> IF u = "u2" THEN "s1" ELSE None]
    /\ \E o \in Users, team \in SUBSET Users :
          /\ firs = [f \in {"f1"} |->
                       [status |-> "submitted", police_officer |-> o, station |-> "s1",
                        details |-> "d0"]]
          /\ assigned_team = [f \in {"f1"} |-> team]
    /\ EmptyTables

FanoutNext ==
    \/ FirDetail("r1", FirIds, {"under_investigation", "rejected", "closed", None}, {0})
    \/ \E u \in Users, f \in FirIds, oid \in OfficerIdArgs :
          admin_fir_detail_view("r1", u, f, oid)
    \/ admin_fir_detail_post("r1")
    \/ \E u \in Users, f \in FirIds, ids \in TeamIdArgs : assign_team_view("r1", u, f, ids)
    \/ assign_team_post("r1")

FanoutSpec == FanoutInit /\ [][FanoutNext]_vars

\* Two status updates of the existing FIRs interleave step by step.
RaceInit == quota = MaxConcurrentRequests /\ Database

RaceNext == \E s \in Slots : FirDetail(s, DOMAIN firs, StatusArgs, {0})

RaceSpec == RaceInit /\ [][RaceNext]_vars

\* One request at a time: the admin views of stations and users and the FIR
\* reassignment, on a database with an admin (u1) and an officer (u2, of
\* station s1, who filed f1); u3 and s2 do not exist yet.
AdminInit ==
    /\ quota = MaxRequests
    /\ stations = [p \in {"s1"} |-> "n0"]
    /\ issued = {"u1", "u2", "s1"}
    /\ role = [u \in {"u1", "u2"} |-> IF u = "u1" THEN "admin" ELSE "police_officer"]
    /\ station = [u \in {"u1", "u2"} |-> IF u = "u2" THEN "s1" ELSE None]
    /\ firs = [f \in {"f1"} |->
                 [status |-> "draft", police_officer |-> "u2", station |-> "s1",
                  details |-> "d0"]]
    /\ assigned_team = [f \in {"f1"} |-> {}]
    /\ EmptyTables

AdminNext ==
    \/ \E u \in Users, name \in NameArgs : station_create_view("r1", u, name)
    \/ \E u \in Users, pk \in Stations, name \in NameArgs : station_edit_view("r1", u, pk, name)
    \/ \E u \in Users, pk \in Stations : station_delete_view("r1", u, pk)
    \/ \E u \in Users, r \in RoleArgs, station_id \in StationIdArgs :
          user_create_view("r1", u, r, station_id)
    \/ \E u \in Users, pk \in Users, r \in RoleArgs, station_id \in StationIdArgs :
          user_edit_view("r1", u, pk, r, station_id)
    \/ \E u \in Users, pk \in Users : user_delete_view("r1", u, pk)
    \/ \E u \in DOMAIN role, f \in FirIds, oid \in OfficerIdArgs :
          admin_fir_detail_view("r1", u, f, oid)
    \/ admin_fir_detail_post("r1")

AdminSpec == AdminInit /\ [][AdminNext]_vars


\* ---------------------------------------------------------------- claims
\* The workflow table as the specification states it.
AllowedNext(c) ==
    CASE c = "draft" -> {"submitted"}
      [] c = "submitted" -> {"under_investigation", "rejected"}
      [] c = "under_investigation" -> {"closed", "rejected"}
      [] c = "rejected" -> {"submitted"}
      [] OTHER -> {}

\* The access rule as the specification states it.
AccessRule(u, f) ==
    \/ role[u] = "admin"
    \/ role[u] = "police_officer" /\ (firs[f].police_officer = u \/ u \in assigned_team[f])

\* The step in which slot s takes a new request.
Entering(s) == req'[s].id # req[s].id

\* The step in which the POST body of view k runs in slot s.
Posting(s, k) == Running(s, k) /\ req'[s].pc = "done"

\* A finished request of view k that got past the view's checks.
Served(s, k) ==
    req[s].kind = k /\ req[s].pc = "done" /\ req[s].out \notin {"403", "404"}

\* C1: every change of a FIR's stored status, over every interleaving of
\* requests, goes from a status to one of its allowed next statuses.
C1_StatusChangesFollowWorkflow ==
    [][\A f \in DOMAIN firs :
          firs'[f].status # firs[f].status
              => firs'[f].status \in AllowedNext(firs[f].status)]_vars

\* C2: the status update sets the status to the requested n iff n is an allowed
\* next status of the current status c; otherwise the status stays c.
C2_StatusUpdateAppliesIffAllowed ==
    [][\A s \in Slots :
          Posting(s, "officer_fir_detail") =>
              LET f == req[s].fir
                  c == firs[f].status
                  n == req[s].arg.status
              IN firs'[f].status = IF n \in AllowedNext(c) THEN n ELSE c]_vars

\* C2 witness: a draft FIR asked to go to under_investigation is still draft.
C2_Witness ==
    /\ Served("r1", "officer_fir_detail")
    /\ req["r1"].snap.status = "draft"
    /\ req["r1"].arg.status = "under_investigation"
    /\ firs[req["r1"].fir].status = "draft"

\* C3: closed has no allowed next status, and no operation that runs after a
\* FIR is closed changes its status.
C3_ClosedIsTerminal ==
    [][/\ \A n \in StatusArgs : ~validate_status_change("closed", n)
       /\ \A f \in DOMAIN firs :
             firs[f].status = "closed" => firs'[f].status = "closed"]_vars

\* C3 witness: a status update has run on a closed FIR, which is still closed.
C3_Witness ==
    /\ Served("r1", "officer_fir_detail")
    /\ req["r1"].snap.status = "closed"
    /\ req["r1"].arg.status = "submitted"
    /\ firs[req["r1"].fir].status = "closed"

\* C4: a request to go from a status to the same status is rejected: the FIR
\* row is not written and no notification is created.
C4_SelfTransitionRejected ==
    [][/\ \A c \in STATUS_CHOICES : ~validate_status_change(c, c)
       /\ \A s \in Slots :
             (Posting(s, "officer_fir_detail")
                /\ req[s].arg.status = firs[req[s].fir].status)
             => firs' = firs /\ notifications' = notifications]_vars

\* C4 witness: a status update to the FIR's own status has been served.
C4_Witness ==
    /\ Served("r1", "officer_fir_detail")
    /\ req["r1"].arg.status \in STATUS_CHOICES
    /\ req["r1"].arg.status = req["r1"].snap.status
    /\ firs[req["r1"].fir].status = req["r1"].snap.status

\* A served status request and whether its transition was applied.
StatusRequest(s) == Served(s, "officer_fir_detail") /\ req[s].arg.status # None
TransitionApplied(s) == req[s].arg.status \in AllowedNext(req[s].snap.status)

\* C5: the response to a rejected transition differs from the response to an
\* applied one.
C5_RejectionIsReported ==
    \A s, t \in Slots :
        (StatusRequest(s) /\ TransitionApplied(s) /\ StatusRequest(t) /\ ~TransitionApplied(t))
            => req[s].out # req[t].out

\* C6: from submitted, a request for rejected is applied; from rejected, a
\* request for submitted is applied; from submitted, a request for closed is
\* rejected; and a FIR becomes closed only from under_investigation.
C6_RejectResubmitClose ==
    [][/\ \A s \in Slots :
             Posting(s, "officer_fir_detail") =>
                 LET f == req[s].fir
                     c == firs[f].status
                     n == req[s].arg.status
                     d == firs'[f].status
                 IN /\ (c = "submitted" /\ n = "rejected") => d = "rejected"
                    /\ (c = "rejected" /\ n = "submitted") => d = "submitted"
                    /\ (c = "submitted" /\ n = "closed") => d = "submitted"
       /\ \A f \in DOMAIN firs :
             (firs'[f].status = "closed" /\ firs[f].status # "closed")
                 => firs[f].status = "under_investigation"]_vars

\* C6 witness: the third request, after two applied status changes of f1 that
\* ended in submitted, asked for closed and f1 is still submitted.
C6_Witness ==
    /\ nreq = 3
    /\ Served("r1", "officer_fir_detail")
    /\ req["r1"].fir = "f1"
    /\ req["r1"].arg.status = "closed"
    /\ firs["f1"].status = "submitted"
    /\ \A c \in {1, 2} :
          \E x \in notifications : x.call = c /\ x.fir = "f1" /\ x.action = "status_change"

\* C7: can_access_fir is the stated rule (admin: always; police officer: owner
\* or team member; any other role: never), whatever the user's station, and a
\* view that only evaluates it answers accordingly.
C7_AccessRuleIsStationIndependent ==
    /\ \A u \in Users, f \in DOMAIN firs :
          can_access_fir(u, f, firs[f]) <=> AccessRule(u, f)
    /\ \A s \in Slots :
          (req[s].kind = "manage_evidence" /\ req[s].pc = "done"
             /\ req[s].fir \in DOMAIN firs)
          => (req[s].out = "403" <=> ~AccessRule(req[s].user, req[s].fir))

\* C7 witness: an officer of the FIR's own station, neither owner nor team
\* member, has been denied.
C7_Witness ==
    \E s \in Slots :
        /\ req[s].kind = "manage_evidence" /\ req[s].pc = "done"
        /\ req[s].fir \in DOMAIN firs
        /\ role[req[s].user] = "police_officer"
        /\ station[req[s].user] = firs[req[s].fir].station
        /\ firs[req[s].fir].police_officer # req[s].user
        /\ req[s].user \notin assigned_team[req[s].fir]
        /\ req[s].out = "403"

\* The views that write rows of a FIR.
MutatingViews ==
    {"officer_fir_detail", "officer_fir_update", "assign_team", "upload_evidence",
     "transcribe_audio", "generate_legal_suggestions", "manage_witnesses",
     "court_hearings"}

\* Slot s takes a request of a mutating view on an existing FIR that
\* can_access_fir denies to the requesting user (for the transcription, a
\* request with an audio file that the service transcribes).
DeniedMutation(s) ==
    /\ Entering(s)
    /\ req'[s].kind \in MutatingViews
    /\ req'[s].fir \in DOMAIN firs
    /\ ~can_access_fir(req'[s].user, req'[s].fir, firs[req'[s].fir])
    /\ req'[s].kind = "transcribe_audio"
          => req'[s].arg.file # None /\ req'[s].arg.service = "200"

\* C8: a mutating operation on a FIR that can_access_fir denies to the user
\* answers forbidden and writes nothing.
C8_DeniedMutationIsForbidden ==
    [][\A s \in Slots :
          DeniedMutation(s) => req'[s].out = "403" /\ req'[s].pc = "done" /\ db' = db]_vars

\* The suggestions of FIR f in a suggestions table.
SuggestionsOf(table, f) == {x \in table : x.fir = f}

\* C9: a generation call leaves the FIR with exactly the suggestions it
\* created, none of those that existed before (overridden or not), and leaves
\* the suggestions of every other FIR as they were.
C9_GenerationReplacesOwnSuggestions ==
    [][\A s \in Slots :
          (Running(s, "generate_legal_suggestions") \/ req[s].pc = "creating") =>
              LET f == req[s].fir
              IN /\ suggestions' \ SuggestionsOf(suggestions', f)
                      = suggestions \ SuggestionsOf(suggestions, f)
                 /\ req'[s].pc = "done" =>
                      /\ {x.id : x \in SuggestionsOf(suggestions', f)} = req'[s].created
                      /\ {x.ipc_section : x \in SuggestionsOf(suggestions', f)}
                            = {mock_suggestions[j].ipc_section : j \in 1..Len(mock_suggestions)}]_vars

\* C9 witness: a generation call for f2 has completed while f1 holds
\* suggestions of an earlier call.
C9_Witness ==
    /\ req["r1"].kind = "generate_legal_suggestions" /\ req["r1"].pc = "done"
    /\ req["r1"].fir = "f2"
    /\ req["r1"].created # {}
    /\ SuggestionsOf(suggestions, "f1") # {}
    /\ SuggestionsOf(suggestions, "f2") # {}

\* The second of two consecutive requests was a generation call for the FIR of
\* the first, also a generation call, and both have completed.
GeneratedTwice(s) ==
    /\ req[s].kind = "generate_legal_suggestions" /\ req[s].pc = "done"
    /\ req[s].created # {}
    /\ req[s].id = 2
    /\ suggestion_seq > Cardinality(req[s].created)
    /\ \A x \in suggestions : x.fir = req[s].fir

NotifierCall(s) == Entering(s) /\ req'[s].kind = "send_fir_notification"

\* The recipient set as the specification states it, for FIR f of the database.
RecipientSet(f, action, actor) ==
    (({firs[f].police_officer} \cup assigned_team[f]) \ {actor})
    \cup (IF action \in {"rejected", "status_change", "overdue"}
          THEN {u \in Users : role[u] = "admin"}
          ELSE {})

\* The rows a step adds to the Notification table.
NewNotifications == notifications' \ notifications

\* A call of send_fir_notification creates one row for each member of the
\* recipient set and none for anyone else.
NotifiesExactlyRecipients ==
    [][\A s \in Slots :
          NotifierCall(s) =>
              \A u \in Users :
                  Cardinality({x \in NewNotifications : x.user = u})
                      = IF u \in RecipientSet(req'[s].fir, req'[s].arg.action, req'[s].user)
                        THEN 1 ELSE 0]_vars

\* C11: a call of send_fir_notification creates one row for each member of the
\* recipient set and none for anyone else, and the link of every row is routed
\* to a detail view of the FIR.
C11_OneRowPerRecipientLinkedToDetail ==
    [][\A s \in Slots :
          NotifierCall(s) =>
              /\ \A u \in Users :
                    Cardinality({x \in NewNotifications : x.user = u})
                        = IF u \in RecipientSet(req'[s].fir, req'[s].arg.action, req'[s].user)
                          THEN 1 ELSE 0
              /\ \A x \in NewNotifications :
                    /\ resolve(x.link) \in {"officer_fir_detail", "admin_fir_detail"}
                    /\ x.link[Len(x.link)] = req'[s].fir]_vars

\* C12: no call of send_fir_notification, whatever the action and the actor,
\* creates a row whose user is the actor.
C12_ActorIsNeverNotified ==
    [][\A s \in Slots :
          NotifierCall(s) => \A x \in NewNotifications : x.user # req'[s].user]_vars

\* C13: every call of send_fir_notification adds one more row for each
\* recipient, whatever rows exist already, so that the rows of a FIR, action
\* and actor number the calls that created them times the recipients.
C13_NoDeduplication ==
    /\ [][\A s \in Slots :
             NotifierCall(s) =>
                 LET f == req'[s].fir
                     a == req'[s].arg.action
                     c == req'[s].user
                     R == RecipientSet(f, a, c)
                     Rows(table, r) ==
                         {x \in table : x.user = r /\ x.fir = f /\ x.action = a /\ x.actor = c}
                 IN /\ \A r \in R :
                         Cardinality(Rows(notifications', r))
                             = Cardinality(Rows(notifications, r)) + 1
                    /\ Cardinality(notifications')
                           = Cardinality(notifications) + Cardinality(R)]_vars
    /\ [](\A f \in DOMAIN firs, a \in ActionArgs, c \in Users :
             LET rows == {x \in notifications : x.fir = f /\ x.action = a /\ x.actor = c}
             IN Cardinality(rows)
                    = Cardinality({x.call : x \in rows}) * Cardinality(RecipientSet(f, a, c)))

\* C13 witness: two calls with the same FIR, action and actor have left two
\* rows for one recipient, and twice as many rows as there are recipients.
C13_Witness ==
    /\ nreq = 2
    /\ \E x, y \in notifications :
          /\ x.call = 1 /\ y.call = 2
          /\ x.user = y.user /\ x.fir = y.fir /\ x.action = y.action /\ x.actor = y.actor
          /\ Cardinality(notifications) = 2 * Cardinality(RecipientSet(x.fir, x.action, x.actor))
          /\ Cardinality(RecipientSet(x.fir, x.action, x.actor)) > 1

\* The views whose POST body calls send_fir_notification.
NotifyingViews == {"officer_fir_detail", "admin_fir_detail", "assign_team"}

\* C14: a Notification row appears only in a step that calls
\* send_fir_notification, unread; a row changes only in its read flag, which
\* mark_notification_read_view sets for a row of the requesting user; every
\* row stays, with its user, message and link, and never becomes unread again.
C14_NotificationsOnlyFlipRead ==
    [][/\ \A x \in NewNotifications :
             \/ /\ notification_pk(x) \notin {notification_pk(y) : y \in notifications}
                /\ ~x.read
                /\ \E s \in Slots :
                      /\ req[s].kind \in NotifyingViews /\ Posting(s, req[s].kind)
                      /\ x.call = req[s].id /\ x.actor = req[s].user /\ x.fir = req[s].fir
             \/ /\ \E y \in notifications : ~y.read /\ x = [y EXCEPT !.read = TRUE]
                /\ \E s \in Slots :
                      /\ Entering(s) /\ req'[s].kind = "mark_notification_read"
                      /\ req'[s].user = x.user
                      /\ req'[s].arg.notification_id = notification_pk(x)
       /\ \A y \in notifications :
             \E x \in notifications' :
                 /\ notification_pk(x) = notification_pk(y)
                 /\ x.user = y.user /\ x.link = y.link
                 /\ x.fir = y.fir /\ x.action = y.action /\ x.actor = y.actor
                 /\ y.read => x.read]_vars

\* C14 witness: a row of the first request has been marked read by its user,
\* a later request has created rows, and the row is still read.
C14_Witness ==
    /\ nreq = 3
    /\ \E x, y \in notifications :
          /\ x.call = 1 /\ x.read
          /\ y.call = 3 /\ ~y.read

\* C15: a FIR row appears only in the create step of a request of a police
\* officer, and the new row is a draft owned by that officer, of that
\* officer's station, with an empty team.
C15_NewFirIsOfficersDraft ==
    [][\A f \in DOMAIN firs' \ DOMAIN firs :
          /\ f \in DOMAIN assigned_team' /\ assigned_team'[f] = {}
          /\ firs'[f].status = "draft"
          /\ \E s \in Slots :
                /\ Posting(s, "officer_fir_create")
                /\ role[req[s].user] = "police_officer"
                /\ firs'[f].police_officer = req[s].user
                /\ firs'[f].station = station[req[s].user]
                /\ firs'[f].station \in Stations]_vars

\* C15 witness: an officer's create request has been answered with the
\* redirect to the new FIR f2.
C15_Witness ==
    /\ req["r1"].kind = "officer_fir_create" /\ req["r1"].pc = "done"
    /\ req["r1"].out = "302 officer_fir_detail"
    /\ req["r1"].fir = "f2" /\ "f2" \in DOMAIN firs
    /\ firs["f2"].police_officer = req["r1"].user

\* The request that created a row is one of a police officer whom
\* can_access_fir admits to the row's FIR.
CreatedByOfficerWithAccess(x) ==
    \E s \in Slots :
        /\ req[s].id = x.call
        /\ role[req[s].user] = "police_officer"
        /\ can_access_fir(req[s].user, x.fir, firs[x.fir])

\* C16: every Witness, CourtHearing and InvestigationNote row is created by a
\* request of a police officer who passes can_access_fir for the row's FIR.
C16_RecordsCreatedByOfficersOnly ==
    [][/\ \A x \in witnesses' \ witnesses : CreatedByOfficerWithAccess(x)
       /\ \A x \in hearings' \ hearings : CreatedByOfficerWithAccess(x)
       /\ \A x \in notes' \ notes : CreatedByOfficerWithAccess(x)]_vars

\* The evidence type the specification derives from a file extension.
TypeOfExtension(ext) ==
    CASE ext \in {"jpg", "jpeg", "png", "gif"} -> "photo"
      [] ext \in {"mp4", "mov", "avi"} -> "video"
      [] ext \in {"mp3", "wav", "m4a", "ogg"} -> "audio"
      [] ext \in {"pdf", "doc", "docx"} -> "document"
      [] OTHER -> "other"

\* C17: an upload that specifies no evidence type is stored with the type of
\* the file's extension, one of the five types; an upload that specifies a
\* type is stored with that type.
C17_EvidenceTypeFromExtension ==
    [][\A s \in Slots :
          Posting(s, "upload_evidence") =>
              \E x \in evidence' \ evidence :
                  /\ x.call = req[s].id
                  /\ x.evidence_type \in EVIDENCE_TYPES
                  /\ x.evidence_type =
                        IF req[s].arg.evidence_type \in {"absent", ""}
                        THEN TypeOfExtension(req[s].arg.file)
                        ELSE req[s].arg.evidence_type]_vars

\* A finished call of kind k in slot s.
Returned(s, k) == req[s].pc = "done" /\ req[s].kind = k

\* The text t is the original text behind a failure marker.
MarkedOriginal(t, text) == \E j \in 2..Len(t) : t[j] = text

\* C18: when the translation service raises for a text, the translation step
\* does not raise: its value holds the original text behind a failure marker,
\* and the pipeline still classifies and returns a result.
C18_TranslationFailureKeepsOriginalText ==
    \A s \in Slots :
        req[s].arg.translator = "raises" /\ req[s].arg.text = "xyz" =>
            /\ Returned(s, "translate_to_english") =>
                   /\ req[s].out = "returned"
                   /\ MarkedOriginal(req[s].body.translated_text, req[s].arg.text)
            /\ Returned(s, "predict_from_text") =>
                   /\ req[s].out = "200"
                   /\ MarkedOriginal(req[s].body.translated_text, req[s].arg.text)
                   /\ req[s].body.ipc_section # None

\* The call in slot s reached the classifier and the classifier raised.
ClassifierFails(s) ==
    /\ req[s].arg.classifier = "raises"
    /\ req[s].arg.text # ""
    /\ req[s].arg.translator # "empty"

\* C19: when the classifier fails, predict_from_text still answers 200 with
\* the fixed section "Prediction failed" and the fixed confidence 0.85, the
\* same pair on every failure, and AIServiceClient.predict_ipc_sections
\* returns to its caller (an empty list on failure) and never raises.
C19_ClassificationFailureYieldsDefaultPair ==
    \A s \in Slots :
        /\ Returned(s, "predict_from_text") /\ ClassifierFails(s) =>
               /\ req[s].out = "200"
               /\ req[s].body.ipc_section = "Prediction failed"
               /\ req[s].body.confidence_score = 85
        /\ Returned(s, "predict_ipc_sections") =>
               /\ req[s].out = "returned"
               /\ (ClassifierFails(s) \/ req[s].arg.network = "down" =>
                       req[s].body.predicted_sections = <<>>)

C19_Witness ==
    \E s \in Slots :
        /\ Returned(s, "predict_from_text")
        /\ ClassifierFails(s)
        /\ req[s].arg.translator = "raises"
        /\ req[s].body.ipc_section = "Prediction failed"

\* The Evidence rows with a transcription and the InvestigationNote rows
\* written by call number n.
TranscriptionRecords(n) ==
    {x \in evidence : x.call = n /\ x.transcription} \cup {x \in notes : x.call = n}

\* C20: a failed transcription (non-success answer, exception, or audio the
\* recogniser cannot understand) gives the caller an outcome without text:
\* upload_audio answers without original_text and without a section predicted
\* from it, and transcribe_audio_view answers with an error and stores no
\* Evidence or InvestigationNote row for the call.
C20_TranscriptionFailureLeavesNoText ==
    \A s \in Slots :
        /\ Returned(s, "upload_audio") /\ req[s].arg.recognizer # "ok" =>
               /\ req[s].body.original_text = None
               /\ req[s].body.ipc_section = None
        /\ Returned(s, "transcribe_audio") /\ req[s].arg.file # None
              /\ req[s].arg.service # "200" =>
               /\ req[s].out \in {"400 Transcription failed", "500"}
               /\ TranscriptionRecords(req[s].id) = {}

\* The step in which the request in slot s gets its response.
Answering(s) == req'[s].pc = "done" /\ (Entering(s) \/ req[s].pc # "done")

\* The request answered in this step names a row that is not in its table
\* before the step: the FIR, Station or User of the URL, the posted station of
\* a user form, or the posted officer of a reassignment.
ReferencesMissingRow(s) ==
    LET r == req'[s]
    IN \/ r.kind = "admin_fir_detail" /\ r.fir \notin DOMAIN firs
       \/ /\ r.kind = "admin_fir_detail" /\ r.fir \in DOMAIN firs
          /\ r.arg.officer_id # None /\ r.arg.officer_id \notin DOMAIN role
       \/ r.kind \in {"station_edit", "station_delete"} /\ r.arg.pk \notin DOMAIN stations
       \/ r.kind \in {"user_edit", "user_delete"} /\ r.arg.pk \notin DOMAIN role
       \/ /\ r.kind \in {"user_create", "user_edit"}
          /\ r.arg.station # None /\ r.arg.station \notin DOMAIN stations

\* C21: a request of an admin that names a FIR, user or station that does not
\* exist is answered "not found" (404), which is neither the forbidden answer
\* nor the answer of a success nor a server error.
C21_MissingResourceIsNotFound ==
    [][\A s \in Slots :
          (Answering(s) /\ req'[s].user \in DOMAIN role /\ is_admin(req'[s].user)
             /\ ReferencesMissingRow(s))
          => req'[s].out = "404"]_vars

\* C22: a status update validates its target against the status it loaded and,
\* when that passes, saves: the stored status becomes its target whatever has
\* been stored since the load, so of two updates that both loaded before either
\* saved the later save stays; an update that fails the validation writes
\* nothing.
C22_LastStatusWriteWins ==
    [][\A s \in Slots :
          Posting(s, "officer_fir_detail") =>
              LET r == req[s]
              IN IF r.arg.status \in AllowedNext(r.snap.status)
                 THEN /\ firs'[r.fir].status = r.arg.status
                      /\ \E x \in NewNotifications : x.call = r.id
                 ELSE firs' = firs /\ NewNotifications = {}]_vars

\* C22 witness: two updates of f1 both loaded it as submitted and both saved
\* (each left its notifications); the first asked for under_investigation, the
\* second for rejected, and the first saved last.
C22_Witness ==
    /\ Served("r1", "officer_fir_detail") /\ Served("r2", "officer_fir_detail")
    /\ req["r1"].fir = "f1" /\ req["r2"].fir = "f1"
    /\ req["r1"].snap.status = "submitted" /\ req["r2"].snap.status = "submitted"
    /\ req["r1"].arg.status = "under_investigation" /\ req["r2"].arg.status = "rejected"
    /\ \E x, y \in notifications : x.call = req["r1"].id /\ y.call = req["r2"].id
    /\ firs["f1"].status = "under_investigation"

\* A generation call in slot s has completed.
Generated(s) ==
    req[s].kind = "generate_legal_suggestions" /\ req[s].pc = "done" /\ req[s].created # {}

\* C23: after two generation calls for the same FIR have both completed, in
\* whatever order their delete and create steps ran, the FIR holds exactly the
\* suggestions one of them created, not those of both.
C23_InterleavedGenerationsLeaveOneSet ==
    \A s, t \in Slots :
        (s # t /\ Generated(s) /\ Generated(t) /\ req[s].fir = req[t].fir) =>
            {x.id : x \in SuggestionsOf(suggestions, req[s].fir)}
                \in {req[s].created, req[t].created}

\* C24: the POST body of officer_fir_detail_view creates Notification rows iff
\* the requested transition is applied: a rejected or absent status creates
\* none; an applied one creates, in the step that stores the new status, the
\* rows of one status_change fan-out, one per recipient; and no other step of
\* the view creates rows.
C24_FanoutIffTransitionApplied ==
    [][/\ \A s \in Slots :
             Posting(s, "officer_fir_detail") =>
                 LET r == req[s]
                     f == r.fir
                     applied == r.arg.status \in AllowedNext(firs[f].status)
                 IN /\ applied <=> NewNotifications # {}
                    /\ ~applied => firs' = firs
                    /\ applied =>
                          /\ firs'[f].status = r.arg.status
                          /\ \A x \in NewNotifications :
                                /\ x.call = r.id /\ x.fir = f /\ x.actor = r.user
                                /\ x.action = "status_change"
                          /\ \A u \in Users :
                                Cardinality({x \in NewNotifications : x.user = u})
                                    = IF u \in RecipientSet(f, "status_change", r.user)
                                      THEN 1 ELSE 0
       /\ NewNotifications # {} => \E s \in Slots : Posting(s, "officer_fir_detail")]_vars

\* C24 witness: the first request changed the status of f1 and left its
\* notifications; the second, whose target was not allowed, left none.
C24_Witness ==
    /\ nreq = 2
    /\ Served("r1", "officer_fir_detail")
    /\ req["r1"].fir = "f1"
    /\ req["r1"].arg.status \in STATUS_CHOICES \ AllowedNext(req["r1"].snap.status)
    /\ notifications # {}
    /\ \A x \in notifications : x.call = 1

\* The views that save the FIR row without meaning to change its status.
StatusKeepingViews == {"officer_fir_update", "admin_fir_detail", "assign_team"}

\* C25: the save of a field update, of a reassignment and of a team assignment
\* leaves the stored status as it was right before the save, also when the
\* status was changed after the request loaded the FIR.
C25_OtherSavesKeepStatus ==
    [][\A s \in Slots :
          (req[s].kind \in StatusKeepingViews /\ Posting(s, req[s].kind))
              => firs'[req[s].fir].status = firs[req[s].fir].status]_vars

\* C26: the rows that a status update, a reassignment or a team assignment
\* creates are never for the user who made the request, whatever the roles of
\* the users, the owner and the team of the FIR.
C26_RequesterIsNotNotified ==
    [][\A s \in Slots :
          (req[s].kind \in NotifyingViews /\ Posting(s, req[s].kind))
              => \A x \in NewNotifications : x.user # req[s].user /\ x.actor = req[s].user]_vars

\* C26 witness: an officer who is in the team they posted has updated the team
\* of f1, and the rows of the request went to others.
C26_Witness ==
    \E s \in Slots :
        /\ Served(s, "assign_team")
        /\ role[req[s].user] = "police_officer"
        /\ req[s].user \in assigned_team[req[s].fir]
        /\ Cardinality(assigned_team[req[s].fir]) = 2
        /\ \E x \in notifications : x.call = req[s].id /\ x.action = "team_updated"
        /\ \A x \in notifications : x.user # req[s].user

\* C27: a reassignment makes the posted officer the owner iff the id is that of
\* an existing user of role police_officer, and then creates the rows of one
\* 'reassigned' fan-out; with no id, an unknown id or a user of another role
\* the FIR row stays and no row is created.  A user who is not an admin is
\* answered forbidden, and the owner of a FIR changes in no other step.
C27_ReassignmentToOfficersByAdmins ==
    [][/\ \A s \in Slots :
             Posting(s, "admin_fir_detail") =>
                 LET r == req[s]
                     f == r.fir
                     oid == r.arg.officer_id
                 IN IF oid \in DOMAIN role /\ role[oid] = "police_officer"
                    THEN /\ firs'[f] = [firs[f] EXCEPT !.police_officer = oid]
                         /\ \A x \in NewNotifications :
                               x.call = r.id /\ x.fir = f /\ x.action = "reassigned"
                         /\ \A u \in Users :
                               Cardinality({x \in NewNotifications : x.user = u})
                                   = IF u \in ({oid} \cup assigned_team[f]) \ {r.user}
                                     THEN 1 ELSE 0
                    ELSE firs' = firs /\ notifications' = notifications
       /\ \A s \in Slots :
             (Entering(s) /\ req'[s].kind = "admin_fir_detail"
                /\ role[req'[s].user] # "admin")
             => req'[s].out = "403" /\ req'[s].pc = "done"
       /\ \A f \in DOMAIN firs :
             firs'[f].police_officer # firs[f].police_officer =>
                 \E s \in Slots :
                     Posting(s, "admin_fir_detail") /\ role[req[s].user] = "admin"]_vars

\* C27 witness: an admin has given f1 to another officer, who got a row.
C27_Witness ==
    \E s \in Slots :
        /\ Served(s, "admin_fir_detail")
        /\ role[req[s].user] = "admin"
        /\ req[s].snap.police_officer # req[s].arg.officer_id
        /\ firs[req[s].fir].police_officer = req[s].arg.officer_id
        /\ \E x \in notifications :
              x.user = req[s].arg.officer_id /\ x.action = "reassigned" /\ x.call = req[s].id

\* C28: after the POST body of assign_team_view the team of the FIR is exactly
\* the posted ids that are existing users of role police_officer, the FIR row
\* and its owner are as before, and the rows created are those of one
\* 'team_updated' fan-out: one for each member of the new team and for the
\* owner, the requesting user left out.
C28_TeamIsOverwritten ==
    [][\A s \in Slots :
          Posting(s, "assign_team") =>
              LET r == req[s]
                  f == r.fir
                  team == {m \in r.arg.team_members \cap DOMAIN role :
                              role[m] = "police_officer"}
              IN /\ assigned_team'[f] = team
                 /\ firs' = firs
                 /\ \A x \in NewNotifications :
                       x.call = r.id /\ x.fir = f /\ x.action = "team_updated"
                 /\ \A u \in Users :
                       Cardinality({x \in NewNotifications : x.user = u})
                           = IF u \in (team \cup {firs[f].police_officer}) \ {r.user}
                             THEN 1 ELSE 0]_vars

\* C28 witness: a team assignment posted an officer and an id no user has; the
\* team of f1 is that officer alone, and the officer and the owner got a row.
C28_Witness ==
    \E s \in Slots :
        /\ Served(s, "assign_team")
        /\ req[s].arg.team_members = {"u2", "u9"}
        /\ assigned_team[req[s].fir] = {"u2"}
        /\ req[s].user # "u2"
        /\ firs[req[s].fir].police_officer \notin {"u2", req[s].user}
        /\ Cardinality({x \in notifications : x.call = req[s].id}) = 2

\* The request in slot s takes a step after its entry.
Continues(s) == Busy(s) /\ req'[s] # req[s]

\* C29: a police officer who is neither the owner of a FIR nor in its team, as
\* stored, changes no record of the FIR: not with a new request (it is refused
\* at its entry), and not with a request that passed the access check while
\* the officer still was the owner or in the team.
C29_RevokedOfficerWritesNothing ==
    [][\A s \in Slots :
          (/\ req'[s].kind \in MutatingViews
           /\ Entering(s) \/ Continues(s)
           /\ req'[s].fir \in DOMAIN firs
           /\ role[req'[s].user] = "police_officer"
           /\ ~AccessRule(req'[s].user, req'[s].fir))
          => db' = db]_vars

\* The views of station and user management, and the FIR reassignment.
AdminOnlyViews ==
    {"station_create", "station_edit", "station_delete", "user_create", "user_edit",
     "user_delete", "admin_fir_detail"}

\* The owner of every FIR.
Owners(table) == [f \in DOMAIN table |-> table[f].police_officer]

\* C30: a request to a station view, a user view or the reassignment by a user
\* who is not an admin is answered forbidden and changes nothing; and the
\* Station table, the User table with roles and stations, and the owners of
\* the FIRs change only in the step of such a request made by an admin.
C30_ManagementIsAdminOnly ==
    [][/\ \A s \in Slots :
             (Entering(s) /\ req'[s].kind \in AdminOnlyViews
                /\ role[req'[s].user] # "admin")
             => /\ req'[s].out = "403" /\ req'[s].pc = "done"
                /\ accounts' = accounts
                /\ db' = db
       /\ (accounts' # accounts \/ Owners(firs') # Owners(firs)) =>
             \E s \in Slots :
                 /\ Answering(s)
                 /\ req'[s].kind \in AdminOnlyViews
                 /\ role[req'[s].user] = "admin"]_vars

\* C30 witness: a police officer asked user_edit_view to make them an admin,
\* was answered forbidden, and is still a police officer.
C30_Witness ==
    \E s \in Slots :
        /\ req[s].kind = "user_edit" /\ req[s].pc = "done"
        /\ req[s].arg.pk = req[s].user
        /\ req[s].arg.role = "admin"
        /\ req[s].out = "403"
        /\ role[req[s].user] = "police_officer"

====
